---- MODULE Spec2Model ----
(***************************************************************************)
(* Comments dashboard (CommentsApp): the startup fetch of comments and     *)
(* posts, the edit overlay kept in localStorage under "commentEdits", and  *)
(* the derived view (filter, pagination, page window).                     *)
(*                                                                         *)
(* Strings are sequences of one-character strings, so that trim(),         *)
(* toLowerCase() and includes() are computed as the code computes them.    *)
(***************************************************************************)
EXTENDS Integers, Sequences, FiniteSets

VARIABLES
    serverComments,  \* what GET /comments answers with (the remote collection)
    serverPosts,     \* what GET /posts answers with
    localStorage,    \* the item stored under the key "commentEdits"
    comments,        \* useState: comments
    posts,           \* useState: posts
    loading,         \* useState: loading
    error,           \* useState: error
    searchTerm,      \* useState: searchTerm
    currentPage,     \* useState: currentPage
    editingCell,     \* useState: editingCell
    editValue,       \* useState: editValue
    effectPending,   \* the [searchTerm] effect is scheduled and has not run yet
    responses,       \* how the two requests of the last fetchData ended
    lastSave         \* history: the last call of saveEdit (n flips at each call)

vars == <<serverComments, serverPosts, localStorage, comments, posts, loading,
          error, searchTerm, currentPage, editingCell, editValue, effectPending,
          responses, lastSave>>

\* The React state of the component, as one tuple.
reactState == <<comments, posts, loading, error, searchTerm, currentPage,
                editingCell, editValue>>

-----------------------------------------------------------------------------
(* Bounds of the model and constants of the program *)

\* const ITEMS_PER_PAGE = 10
ITEMS_PER_PAGE == 10

\* const maxVisiblePages = 5
maxVisiblePages == 5

\* The remote collection of the editing model holds one page and MaxExtra comments.
MaxExtra == 1

\* The largest remote collection of the view model.
MaxViewComments == 61

\* The largest remote collection of the merge model.
MaxMergeComments == 2

-----------------------------------------------------------------------------
(* Strings *)

\* " " stands for every white-space character String.prototype.trim removes.
IsSpace(c) == c = " "

LowerChar(c) == IF c = "A" THEN "a" ELSE IF c = "B" THEN "b" ELSE c

\* String.prototype.toLowerCase
toLowerCase(s) == [i \in 1..Len(s) |-> LowerChar(s[i])]

RECURSIVE TrimStart(_)
TrimStart(s) == IF s # <<>> /\ IsSpace(Head(s)) THEN TrimStart(Tail(s)) ELSE s

RECURSIVE TrimEnd(_)
TrimEnd(s) ==
    IF s # <<>> /\ IsSpace(s[Len(s)]) THEN TrimEnd(SubSeq(s, 1, Len(s) - 1)) ELSE s

\* String.prototype.trim
trim(s) == TrimEnd(TrimStart(s))

\* String.prototype.includes: t occurs in s as a substring.
includes(s, t) ==
    \E i \in 0..(Len(s) - Len(t)) : SubSeq(s, i + 1, i + Len(t)) = t

\* A string is falsy in JavaScript exactly when it is empty.
Truthy(s) == s # <<>>

-----------------------------------------------------------------------------
(* The remote collections *)

NamePool == << <<"a", " ">>, <<"a">>, <<"A", "b">> >>
EmailPool == << <<"A">>, <<"b">> >>
BodyPool == << <<"a", "b">>, <<"B">>, <<"a", "b">>, <<"b">> >>

\* interface Comment { id, name, email, body, postId }
CommentAt(i) ==
    [id     |-> i,
     name   |-> NamePool[(i % 3) + 1],
     email  |-> EmailPool[(i % 2) + 1],
     body   |-> BodyPool[(i % 4) + 1],
     postId |-> ((i - 1) \div 5) + 1]

CommentsData(n) == [i \in 1..n |-> CommentAt(i)]

\* interface Post { id, title }
PostsData == << [id |-> 1, title |-> <<"a">>], [id |-> 2, title |-> <<"b">>] >>

-----------------------------------------------------------------------------
(* localStorage and JSON *)

\* getItem answers null: nothing is stored under the key.
NoItem == [kind |-> "none"]
\* The empty string is stored under the key.
EmptyItem == [kind |-> "empty"]
\* A text that is not JSON is stored under the key.
GarbageItem == [kind |-> "garbage"]
\* The text "null" is stored under the key.
NullItem == [kind |-> "json", val |-> [t |-> "null"]]

\* An object whose own properties are the comment ids in DOMAIN entries, each
\* holding an object with some of the properties name and body.  A property
\* key is the id itself: savedEdits[id] and edits[comment.id] turn the number
\* into the same key.
Obj(entries) == [t |-> "object", entries |-> entries]
EmptyObj == Obj(<<>>)

\* JSON.stringify of an overlay object, as the stored item.
JSONStringify(v) == [kind |-> "json", val |-> v]

\* JSON.parse of a stored text: the value, or a SyntaxError.
JSONParse(item) ==
    IF item.kind = "json" THEN [ok |-> TRUE, val |-> item.val]
    ELSE [ok |-> FALSE]

\* A stored item is truthy unless it is null or the empty string.
ItemTruthy(item) == item.kind \notin {"none", "empty"}

\* v[id] for a parsed value v that is an object: the entry, or undefined.
HasEntry(v, id) == v.t = "object" /\ id \in DOMAIN v.entries

-----------------------------------------------------------------------------
(* fetchData *)

ErrorMessage == "Failed to load data. Please try again."
NoError == "null"
NoCell == [id |-> 0, field |-> "none"]
NoSave == [n |-> 0, id |-> 0, field |-> "none", draft |-> <<>>, reloaded |-> FALSE]

\* How one request ends: the response is ok and its body parses; fetch
\* rejects; the status is not a success; the body does not parse.
Outcomes == {"ok", "network", "status", "parse"}

\* savedEdits ? JSON.parse(savedEdits) : {}
ReadEdits(item) ==
    IF ItemTruthy(item) THEN JSONParse(item) ELSE [ok |-> TRUE, val |-> EmptyObj]

\* The callback applying the saved name and dropping the saved body.
MergeOneNameOnly(comment, edits) ==
    IF HasEntry(edits, comment.id)
    THEN LET savedEdit == edits.entries[comment.id]
         IN  [comment EXCEPT
                !.name = IF "name" \in DOMAIN savedEdit /\ Truthy(savedEdit.name)
                         THEN savedEdit.name ELSE comment.name]
    ELSE comment

\* The callback of commentsData.map for one comment.
MergeOne(comment, edits) ==
    IF HasEntry(edits, comment.id)
    THEN LET savedEdit == edits.entries[comment.id]
         IN  [comment EXCEPT
                !.name = IF "name" \in DOMAIN savedEdit /\ Truthy(savedEdit.name)
                         THEN savedEdit.name ELSE comment.name,
                !.body = IF "body" \in DOMAIN savedEdit /\ Truthy(savedEdit.body)
                         THEN savedEdit.body ELSE comment.body]
    ELSE comment

\* commentsWithEdits
CommentsWithEdits(commentsData, edits) ==
    [k \in 1..Len(commentsData) |-> MergeOne(commentsData[k], edits)]

\* edits[comment.id] throws a TypeError when edits is null and there is a
\* comment to map over.
MergeThrows(commentsData, edits) == edits.t = "null" /\ Len(commentsData) > 0

\* fetchData going on when the request for the comments alone has succeeded.
FetchSucceedsOnComments(cr, pr) ==
    /\ cr = "ok"
    /\ ReadEdits(localStorage).ok
    /\ ~MergeThrows(serverComments, ReadEdits(localStorage).val)

\* The try block runs to its end: both requests succeed, the stored overlay
\* parses and the merge does not throw.
FetchSucceeds(cr, pr) ==
    /\ cr = "ok" /\ pr = "ok"
    /\ ReadEdits(localStorage).ok
    /\ ~MergeThrows(serverComments, ReadEdits(localStorage).val)

FetchData ==
    /\ loading
    /\ \E cr \in Outcomes, pr \in Outcomes :
         /\ responses' = <<cr, pr>>
         /\ IF FetchSucceeds(cr, pr)
            THEN /\ comments' = CommentsWithEdits(serverComments,
                                                  ReadEdits(localStorage).val)
                 /\ posts' = serverPosts
                 /\ error' = error
            ELSE /\ error' = ErrorMessage
                 /\ UNCHANGED <<comments, posts>>
    /\ loading' = FALSE
    /\ UNCHANGED <<serverComments, serverPosts, localStorage, searchTerm,
                   currentPage, editingCell, editValue, effectPending, lastSave>>

-----------------------------------------------------------------------------
(* The derived view *)

\* The predicate comparing the fields as they are, without toLowerCase.
MatchesCaseSensitive(comment, searchLower) ==
    \/ includes(comment.email, searchLower)
    \/ includes(comment.name, searchLower)
    \/ includes(comment.body, searchLower)

\* The predicate of comments.filter.
Matches(comment, searchLower) ==
    \/ includes(toLowerCase(comment.email), searchLower)
    \/ includes(toLowerCase(comment.name), searchLower)
    \/ includes(toLowerCase(comment.body), searchLower)

\* filteredComments
FilteredComments(cs, term) ==
    IF trim(term) = <<>> THEN cs
    ELSE LET searchLower == toLowerCase(term)
             Keep(c) == Matches(c, searchLower)
         IN  SelectSeq(cs, Keep)

Min(a, b) == IF a < b THEN a ELSE b
Max(a, b) == IF a > b THEN a ELSE b

\* Array.prototype.slice(start, end): a negative index counts from the end,
\* and both are clamped to the length.
Slice(s, start, end) ==
    LET from == IF start < 0 THEN Max(Len(s) + start, 0) ELSE Min(start, Len(s))
        to   == IF end < 0 THEN Max(Len(s) + end, 0) ELSE Min(end, Len(s))
    IN  SubSeq(s, from + 1, to)

\* The slice starting at currentPage * ITEMS_PER_PAGE.
PaginatedCommentsFromPage(filtered, page) ==
    LET startIndex == page * ITEMS_PER_PAGE
    IN  Slice(filtered, startIndex, startIndex + ITEMS_PER_PAGE)

\* paginatedComments
PaginatedComments(filtered, page) ==
    LET startIndex == (page - 1) * ITEMS_PER_PAGE
    IN  Slice(filtered, startIndex, startIndex + ITEMS_PER_PAGE)

\* totalPages = Math.ceil(filteredComments.length / ITEMS_PER_PAGE)
TotalPages(filtered) == (Len(filtered) + ITEMS_PER_PAGE - 1) \div ITEMS_PER_PAGE

\* The window kept at the boundary for the first and the last
\* maxVisiblePages pages.
PageWindowWideBoundary(page, total) ==
    IF total > maxVisiblePages
    THEN IF page <= maxVisiblePages THEN <<1, maxVisiblePages>>
         ELSE IF page >= total - maxVisiblePages + 1
              THEN <<total - maxVisiblePages + 1, total>>
         ELSE <<page - 2, page + 2>>
    ELSE <<1, IF maxVisiblePages < total THEN maxVisiblePages ELSE total>>

\* The page numbers of the numbered buttons: <<startPage, endPage>>.
PageWindow(page, total) ==
    IF total > maxVisiblePages
    THEN IF page <= 3 THEN <<1, maxVisiblePages>>
         ELSE IF page >= total - 2 THEN <<total - maxVisiblePages + 1, total>>
         ELSE <<page - 2, page + 2>>
    ELSE <<1, Min(maxVisiblePages, total)>>

filteredComments == FilteredComments(comments, searchTerm)
paginatedComments == PaginatedComments(filteredComments, currentPage)
totalPages == TotalPages(filteredComments)

\* The component renders the dashboard, not the loading or the error screen.
Dashboard == ~loading /\ error = NoError

\* The ids of the comments whose rows are rendered.
DisplayedIds ==
    IF Dashboard
    THEN {paginatedComments[k].id : k \in 1..Len(paginatedComments)}
    ELSE {}

\* An event handler runs only once the effects of the last render have run.
Settled == ~effectPending

-----------------------------------------------------------------------------
(* Search and pagination *)

\* Input.onChange: setSearchTerm(e.target.value).  The [searchTerm] effect is
\* scheduled by the render in which searchTerm has changed.
SetSearchTerm(t) ==
    /\ Dashboard /\ Settled
    /\ searchTerm' = t
    /\ effectPending' = (t # searchTerm)
    /\ UNCHANGED <<serverComments, serverPosts, localStorage, comments, posts,
                   loading, error, currentPage, editingCell, editValue,
                   responses, lastSave>>

\* The effect running without resetting the page.
SearchEffectKeepsPage ==
    /\ effectPending
    /\ effectPending' = FALSE
    /\ UNCHANGED <<serverComments, serverPosts, localStorage, comments, posts,
                   loading, error, searchTerm, currentPage, editingCell,
                   editValue, responses, lastSave>>

\* useEffect(() => { setCurrentPage(1) }, [searchTerm])
SearchEffect ==
    /\ effectPending
    /\ currentPage' = 1
    /\ effectPending' = FALSE
    /\ UNCHANGED <<serverComments, serverPosts, localStorage, comments, posts,
                   loading, error, searchTerm, editingCell, editValue,
                   responses, lastSave>>

\* The pages the rendered buttons ask for: Previous, Next and the numbered
\* window.  The controls are rendered when totalPages > 1.
PageButtons ==
    IF Dashboard /\ Len(filteredComments) # 0 /\ totalPages > 1
    THEN (IF currentPage = 1 THEN {} ELSE {currentPage - 1})
         \cup (IF currentPage = totalPages THEN {} ELSE {currentPage + 1})
         \cup (PageWindow(currentPage, totalPages)[1]
                 .. PageWindow(currentPage, totalPages)[2])
    ELSE {}

\* goToPage
GoToPage(page) ==
    /\ Settled
    /\ page \in PageButtons
    /\ currentPage' = Max(1, Min(page, totalPages))
    /\ UNCHANGED <<serverComments, serverPosts, localStorage, comments, posts,
                   loading, error, searchTerm, editingCell, editValue,
                   effectPending, responses, lastSave>>

-----------------------------------------------------------------------------
(* Inline editing *)

Fields == {"name", "body"}

\* startEdit(comment.id, field, comment[field]), from the pencil of a rendered
\* row whose cell is not the one being edited.
StartEdit(id, field) ==
    /\ Settled
    /\ id \in DisplayedIds
    /\ editingCell # [id |-> id, field |-> field]
    /\ \E k \in 1..Len(comments) :
         /\ comments[k].id = id
         /\ editValue' = comments[k][field]
    /\ editingCell' = [id |-> id, field |-> field]
    /\ UNCHANGED <<serverComments, serverPosts, localStorage, comments, posts,
                   loading, error, searchTerm, currentPage, effectPending,
                   responses, lastSave>>

\* The input of the cell being edited is rendered.
EditorShown == editingCell # NoCell /\ editingCell.id \in DisplayedIds

\* Input.onChange of the editor: setEditValue(e.target.value)
SetEditValue(v) ==
    /\ Settled
    /\ EditorShown
    /\ editValue' = v
    /\ UNCHANGED <<serverComments, serverPosts, localStorage, comments, posts,
                   loading, error, searchTerm, currentPage, editingCell,
                   effectPending, responses, lastSave>>

\* saveEdit without the trim of the test: only the empty draft is refused.
RefusedOnlyEmpty(draft) == draft = <<>>

\* if (editValue.trim() === "") return
Refused(draft) == trim(draft) = <<>>

\* saveEdit storing the draft as typed.
SavedValueUntrimmed(draft) == draft

\* The value saveEdit stores: editValue.trim()
SavedValue(draft) == trim(draft)

\* savedEdits[id] = { [field]: value }, without the spread of the prior entry.
SavedEditsAfterNoSpread(savedEdits, id, field, value) ==
    [t |-> "object",
     entries |-> [i \in (DOMAIN savedEdits.entries) \cup {id} |->
                    IF i = id THEN [f \in {field} |-> value]
                    ELSE savedEdits.entries[i]]]

\* savedEdits[id] = { ...savedEdits[id], [field]: value }
SavedEditsAfter(savedEdits, id, field, value) ==
    LET prior == IF id \in DOMAIN savedEdits.entries
                 THEN savedEdits.entries[id] ELSE <<>>
        entry == [f \in (DOMAIN prior) \cup {field} |->
                    IF f = field THEN value ELSE prior[f]]
    IN  Obj([i \in (DOMAIN savedEdits.entries) \cup {id} |->
               IF i = id THEN entry ELSE savedEdits.entries[i]])

\* JSON.parse(localStorage.getItem("commentEdits") || "{}")
ReadSavedEdits(item) ==
    IF ItemTruthy(item) THEN JSONParse(item) ELSE [ok |-> TRUE, val |-> EmptyObj]

\* The callback of prev.map for one comment.
UpdateOne(comment, id, field, value) ==
    IF comment.id = id THEN [comment EXCEPT ![field] = value] ELSE comment

\* The item stored when the mapping is built anew from the saved entry alone,
\* without reading what is stored.
StoredAfterSaveFromEmpty(prev, item, id, field, value) ==
    IF \E k \in 1..Len(prev) : prev[k].id = id
    THEN JSONStringify(SavedEditsAfter(EmptyObj, id, field, value))
    ELSE item

\* The item stored after the updater of setComments has run: written once
\* for each comment whose id is id, each time to the same value.
StoredAfterSave(prev, item, id, field, value) ==
    IF \E k \in 1..Len(prev) : prev[k].id = id
    THEN JSONStringify(SavedEditsAfter(ReadSavedEdits(item).val, id, field, value))
    ELSE item

\* The updater of setComments throws: the stored text does not parse, or it
\* parses to null, and a comment has the id.
SaveThrows(prev, item, id) ==
    /\ \E k \in 1..Len(prev) : prev[k].id = id
    /\ \/ ~ReadSavedEdits(item).ok
       \/ ReadSavedEdits(item).val.t # "object"

\* saveEdit(id, field), from the check mark of the cell being edited.  The
\* editor is rendered only after a load that has read the stored item, and
\* the item is then missing, empty or a mapping: the updater cannot throw.
SaveEdit ==
    /\ Settled
    /\ EditorShown
    /\ ~SaveThrows(comments, localStorage, editingCell.id)
    /\ lastSave' = [n |-> 1 - lastSave.n, id |-> editingCell.id,
                    field |-> editingCell.field, draft |-> editValue,
                    reloaded |-> FALSE]
    /\ IF Refused(editValue)
       THEN UNCHANGED <<comments, localStorage, editingCell, editValue>>
       ELSE /\ comments' = [k \in 1..Len(comments) |->
                              UpdateOne(comments[k], editingCell.id,
                                        editingCell.field, SavedValue(editValue))]
            /\ localStorage' = StoredAfterSave(comments, localStorage,
                                               editingCell.id, editingCell.field,
                                               SavedValue(editValue))
            /\ editingCell' = NoCell
            /\ editValue' = <<>>
    /\ UNCHANGED <<serverComments, serverPosts, posts, loading, error,
                   searchTerm, currentPage, effectPending, responses>>

\* cancelEdit
CancelEdit ==
    /\ Settled
    /\ EditorShown
    /\ editingCell' = NoCell
    /\ editValue' = <<>>
    /\ UNCHANGED <<serverComments, serverPosts, localStorage, comments, posts,
                   loading, error, searchTerm, currentPage, effectPending,
                   responses, lastSave>>

\* window.location.reload(): the component is constructed again; what is
\* stored and what the remote endpoints hold stay.
Reload ==
    /\ Settled
    /\ comments' = <<>>
    /\ posts' = <<>>
    /\ loading' = TRUE
    /\ error' = NoError
    /\ searchTerm' = <<>>
    /\ currentPage' = 1
    /\ editingCell' = NoCell
    /\ editValue' = <<>>
    /\ responses' = <<"pending", "pending">>
    /\ lastSave' = IF lastSave = NoSave THEN NoSave
                   ELSE [lastSave EXCEPT !.reloaded = TRUE]
    /\ UNCHANGED <<serverComments, serverPosts, localStorage, effectPending>>

-----------------------------------------------------------------------------
(* The editing model: one remote collection, every handler *)

\* The state after construction: useState's initial values.
Constructed ==
    /\ comments = <<>>
    /\ posts = <<>>
    /\ loading = TRUE
    /\ error = NoError
    /\ searchTerm = <<>>
    /\ currentPage = 1
    /\ editingCell = NoCell
    /\ editValue = <<>>
    /\ effectPending = FALSE
    /\ responses = <<"pending", "pending">>
    /\ lastSave = NoSave

\* What the key holds when the page is opened.
StoredItems ==
    {NoItem, EmptyItem, GarbageItem, NullItem, JSONStringify(EmptyObj),
     JSONStringify(Obj([i \in {1} |-> [f \in {"body"} |-> <<"B">>]]))}

NumComments == ITEMS_PER_PAGE + MaxExtra

\* The comments whose pencils the user clicks.
EditIds == {NumComments}

\* What the user types into the editor and into the search box.
Drafts == {<<>>, <<" ">>, <<" ", "b", " ">>}
Terms == {<<>>, <<"a">>}

Init ==
    /\ serverComments = CommentsData(NumComments)
    /\ serverPosts = PostsData
    /\ localStorage \in StoredItems
    /\ Constructed

Next ==
    \/ FetchData
    \/ Reload
    \/ \E t \in Terms : SetSearchTerm(t)
    \/ SearchEffect
    \/ \E p \in PageButtons : GoToPage(p)
    \/ \E id \in EditIds, f \in Fields : StartEdit(id, f)
    \/ \E v \in Drafts : SetEditValue(v)
    \/ SaveEdit
    \/ CancelEdit

Spec == Init /\ [][Next]_vars

-----------------------------------------------------------------------------
(* The view model: remote collections of every size up to MaxViewComments, *)
(* nothing stored, and the handlers of the search box and of the page      *)
(* controls.                                                               *)

ViewTerms ==
    {<<>>, <<" ">>, <<"a">>, <<"A">>, <<"a", " ">>, <<"a", "b">>, <<"A", "b">>,
     <<"B", "a">>}

InitView ==
    /\ serverComments \in {CommentsData(n) : n \in 0..MaxViewComments}
    /\ serverPosts = PostsData
    /\ localStorage = NoItem
    /\ Constructed

NextView ==
    \/ FetchData
    \/ \E t \in ViewTerms : SetSearchTerm(t)
    \/ SearchEffect
    \/ \E p \in PageButtons : GoToPage(p)

SpecView == InitView /\ [][NextView]_vars

-----------------------------------------------------------------------------
(* The merge model: small remote collections and every stored overlay over *)
(* OverlayIds, loaded and loaded again.                                    *)

OverlayIds == {1, 2}
OverlayValues == {<<>>, <<"b", "A">>}

\* The objects an overlay holds for one comment: some of name and body set.
OverlayEntries ==
    UNION {[fs -> OverlayValues] : fs \in SUBSET Fields}

Overlays ==
    UNION {[ids -> OverlayEntries] : ids \in SUBSET OverlayIds}

MergeItems ==
    {NoItem, EmptyItem, GarbageItem, NullItem}
        \cup {JSONStringify(Obj(e)) : e \in Overlays}

InitMerge ==
    /\ serverComments \in {CommentsData(n) : n \in 0..MaxMergeComments}
    /\ serverPosts = PostsData
    /\ localStorage \in MergeItems
    /\ Constructed

NextMerge ==
    \/ FetchData
    \/ Reload

SpecMerge == InitMerge /\ [][NextMerge]_vars

-----------------------------------------------------------------------------
(* Properties of the startup fetch and of the overlay (under Spec) *)

\* The React state of the error screen.
ErrorState == << <<>>, <<>>, FALSE, ErrorMessage, <<>>, 1, NoCell, <<>> >>

\* The stored item is not a JSON text of a mapping.
Malformed(item) ==
    \/ item.kind \in {"empty", "garbage"}
    \/ item.kind = "json" /\ item.val.t # "object"

\* The overlay a stored item holds: its mapping, or the empty mapping.
OverlayOf(item) ==
    IF item.kind = "json" /\ item.val.t = "object" THEN item.val.entries ELSE <<>>

\* C1: when the stored overlay is missing or malformed and both requests
\* succeed, startup ends on the dashboard with the fetched comments
\* unmodified, and not on the error screen.
OverlayLoadFailsOpen ==
    (/\ ~loading
     /\ responses = <<"ok", "ok">>
     /\ localStorage = NoItem \/ Malformed(localStorage))
        => (error = NoError /\ comments = serverComments)

\* C2: when either request fails, startup ends in the one error state, with
\* loading false and no comments and no posts, whichever request failed; the
\* dashboard is reached only when both requests succeed.
BothOrFail ==
    ~loading =>
        /\ (responses[1] # "ok" \/ responses[2] # "ok") => reactState = ErrorState
        /\ Dashboard => responses = <<"ok", "ok">>

\* The comments request succeeds, the posts request fails, and the error
\* screen is shown.
OneRequestFailed ==
    /\ ~loading
    /\ responses[1] = "ok" /\ responses[2] \in {"network", "status", "parse"}
    /\ reactState = ErrorState

\* The last call of saveEdit was made with a draft that is not blank.
SaveAccepted == lastSave # NoSave /\ trim(lastSave.draft) # <<>>

\* C3: saveEdit(i, f) with a draft v that is not blank stores trim(v) as
\* overlay[i][f], and on the dashboard, also after a reload that fetches the
\* same comments, comment i has f = trim(v).
SavePersistsTrimmed ==
    SaveAccepted =>
        /\ lastSave.id \in DOMAIN OverlayOf(localStorage)
        /\ lastSave.field \in DOMAIN OverlayOf(localStorage)[lastSave.id]
        /\ OverlayOf(localStorage)[lastSave.id][lastSave.field] = trim(lastSave.draft)
        /\ Dashboard =>
             /\ \E k \in 1..Len(comments) : comments[k].id = lastSave.id
             /\ \A k \in 1..Len(comments) :
                  comments[k].id = lastSave.id
                      => comments[k][lastSave.field] = trim(lastSave.draft)

\* A draft with white space around it was saved, the page was reloaded and
\* the dashboard is shown again.
SavedThenReloaded ==
    /\ SaveAccepted
    /\ lastSave.draft # trim(lastSave.draft)
    /\ lastSave.reloaded
    /\ Dashboard

\* A step is a call of saveEdit exactly when lastSave.n flips.
\* C4: saveEdit with an empty or white-space draft changes neither the
\* comments, nor the stored overlay, nor the edit in progress, and enters
\* no error state.
BlankSaveIsNoOp ==
    [][(lastSave'.n # lastSave.n /\ trim(editValue) = <<>>)
          => /\ comments' = comments
             /\ localStorage' = localStorage
             /\ editingCell' = editingCell
             /\ editValue' = editValue
             /\ error' = error]_vars

\* saveEdit has just been called with a white-space draft, which is still
\* the draft of the edit in progress.
BlankSaveRefused ==
    /\ lastSave # NoSave
    /\ ~lastSave.reloaded
    /\ lastSave.draft # <<>>
    /\ trim(lastSave.draft) = <<>>
    /\ editingCell = [id |-> lastSave.id, field |-> lastSave.field]
    /\ editValue = lastSave.draft

\* C5: a successful saveEdit(i, f) changes only overlay[i][f] of the stored
\* mapping (the other field of entry i and the entries of the other ids keep
\* their values) and only field f of comment i in memory.
SaveChangesOnlyItsField ==
    [][(lastSave'.n # lastSave.n /\ trim(editValue) # <<>>)
          => LET id == editingCell.id
                 f == editingCell.field
                 old == OverlayOf(localStorage)
                 new == OverlayOf(localStorage')
                 prior == IF id \in DOMAIN old THEN DOMAIN old[id] ELSE {}
             IN  /\ localStorage'.kind = "json"
                 /\ localStorage'.val.t = "object"
                 /\ DOMAIN new = (DOMAIN old) \cup {id}
                 /\ \A i \in (DOMAIN old) \ {id} : new[i] = old[i]
                 /\ DOMAIN new[id] = prior \cup {f}
                 /\ \A g \in prior \ {f} : new[id][g] = old[id][g]
                 /\ Len(comments') = Len(comments)
                 /\ \A k \in 1..Len(comments) :
                      /\ comments[k].id # id => comments'[k] = comments[k]
                      /\ \A g \in (DOMAIN comments[k]) \ {f} :
                           comments'[k][g] = comments[k][g]]_vars

\* The second field of a comment has just been saved, next to the first one
\* and to the entry of another comment.
SecondFieldSaved ==
    /\ SaveAccepted
    /\ ~lastSave.reloaded
    /\ editingCell = NoCell
    /\ DOMAIN OverlayOf(localStorage)[lastSave.id] = Fields
    /\ DOMAIN OverlayOf(localStorage) # {lastSave.id}

-----------------------------------------------------------------------------
(* Properties of the derived view (under SpecView) *)

\* C6: a change of the search term schedules the effect, and the effect
\* sets the current page to 1 before any other handler runs, so no settled
\* state shows the new search term with the old page.
SearchResetsPage ==
    [][/\ searchTerm' # searchTerm => effectPending'
       /\ effectPending => /\ ~effectPending'
                           /\ currentPage' = 1
                           /\ searchTerm' = searchTerm]_vars

\* The search term has just changed while page 5 was shown.
SearchChangedOnPageFive == effectPending /\ currentPage = 5

\* The least n with n * ITEMS_PER_PAGE >= count.
CeilPages(count) ==
    CHOOSE n \in 0..count :
        n * ITEMS_PER_PAGE >= count /\ (n = 0 \/ (n - 1) * ITEMS_PER_PAGE < count)

RECURSIVE PagesConcat(_, _)
PagesConcat(filtered, n) ==
    IF n = 0 THEN <<>>
    ELSE PagesConcat(filtered, n - 1) \o PaginatedComments(filtered, n)

\* C7: with totalPages = ceil(filteredCount / 10), the page slices of pages
\* 1..totalPages, concatenated in order, are the filtered sequence, and every
\* page but the last holds 10 elements.
PagesPartition ==
    Dashboard =>
        /\ totalPages = CeilPages(Len(filteredComments))
        /\ PagesConcat(filteredComments, totalPages) = filteredComments
        /\ \A p \in 1..(totalPages - 1) :
             Len(PaginatedComments(filteredComments, p)) = ITEMS_PER_PAGE

\* A search keeps some of the comments: three pages or more, the last one
\* not full.
ThreePagesLastPartial ==
    /\ Dashboard
    /\ trim(searchTerm) # <<>>
    /\ Len(filteredComments) < Len(comments)
    /\ totalPages >= 3
    /\ Len(filteredComments) % ITEMS_PER_PAGE # 0

\* t, lowercased, occurs in s, lowercased.
ContainsLowered(s, t) ==
    \E off \in 0..(Len(s) - Len(t)) :
        \A j \in 1..Len(t) : LowerChar(s[off + j]) = LowerChar(t[j])

\* The positions of the comments a search for t retains.
Retained(cs, t) ==
    IF trim(t) = <<>> THEN 1..Len(cs)
    ELSE {k \in 1..Len(cs) : \/ ContainsLowered(cs[k].email, t)
                             \/ ContainsLowered(cs[k].name, t)
                             \/ ContainsLowered(cs[k].body, t)}

\* C8: the filter returns the comments unchanged when the trimmed term is
\* empty, and otherwise the comments whose lowercased email, name or body
\* contains the lowercased term, in their order; two terms that differ only
\* in letter case give the same result.
FilterContract ==
    Dashboard =>
        LET kept == Retained(comments, searchTerm)
        IN  /\ trim(searchTerm) = <<>> => filteredComments = comments
            /\ FilteredComments(comments, <<>>) = comments
            /\ Len(filteredComments) = Cardinality(kept)
            /\ \A k \in kept :
                 filteredComments[Cardinality({j \in kept : j <= k})] = comments[k]
            /\ \A t \in ViewTerms :
                 toLowerCase(t) = toLowerCase(searchTerm)
                     => FilteredComments(comments, t) = filteredComments

\* A term with a capital letter retains some of the comments and not all.
MixedCaseSearchKeepsSome ==
    /\ Dashboard
    /\ searchTerm # toLowerCase(searchTerm)
    /\ Len(filteredComments) > 0
    /\ Len(filteredComments) < Len(comments)

\* The window of the claim as written: the boundary windows for the first 5
\* and for the last 5 pages.
ClaimedWindow(page, total) ==
    IF total <= 5 THEN <<1, total>>
    ELSE IF page <= 5 THEN <<1, 5>>
    ELSE IF page >= total - 4 THEN <<total - 4, total>>
    ELSE <<page - 2, page + 2>>

\* C10 as written: the window is [1, 5] on the first 5 pages and
\* [totalPages-4, totalPages] on the last 5 pages.
WindowAsClaimed ==
    (Dashboard /\ totalPages > 1)
        => PageWindow(currentPage, totalPages) = ClaimedWindow(currentPage, totalPages)

\* C10, amended: the window has at most 5 page numbers; it is [1, totalPages]
\* if total pages <= 5; otherwise [1, 5] when the current page is one of the
\* first 3 pages, [totalPages-4, totalPages] when it is one of the last 3
\* pages, and [current-2, current+2] in every other case.
WindowContract ==
    (Dashboard /\ totalPages > 1) =>
        LET w == PageWindow(currentPage, totalPages)
        IN  /\ w[2] - w[1] + 1 <= 5
            /\ totalPages <= 5 => w = <<1, totalPages>>
            /\ (totalPages > 5 /\ currentPage <= 3) => w = <<1, 5>>
            /\ (totalPages > 5 /\ currentPage > 3 /\ currentPage >= totalPages - 2)
                 => w = <<totalPages - 4, totalPages>>
            /\ (totalPages > 5 /\ currentPage > 3 /\ currentPage < totalPages - 2)
                 => w = <<currentPage - 2, currentPage + 2>>

\* Page 4 of 7 or more is shown: the window is centred on it.
WindowCentred ==
    /\ Dashboard
    /\ totalPages >= 7
    /\ currentPage = 4
    /\ PageWindow(currentPage, totalPages) = <<2, 6>>

-----------------------------------------------------------------------------
(* Properties of the merge (under SpecMerge) *)

\* The overlay sets field f of the comment with this id.
OverlaySets(id, f) ==
    /\ id \in DOMAIN OverlayOf(localStorage)
    /\ f \in DOMAIN OverlayOf(localStorage)[id]

OverlaySetsNonEmpty(id, f) ==
    OverlaySets(id, f) /\ OverlayOf(localStorage)[id][f] # <<>>

-----------------------------------------------------------------------------
(* Properties of the editing session as a whole (under Spec) *)

\* C11: on the dashboard, after any sequence of start-edit, draft-change,
\* save, cancel, search and page actions, the comments in memory are the
\* merge of the fetched comments with the overlay stored now: a reload
\* against the same fetched data would show the comments in memory.
MemoryIsMergeOfStored ==
    Dashboard =>
        comments = CommentsWithEdits(serverComments, Obj(OverlayOf(localStorage)))

\* A save was made under an active search, next to the stored entry of
\* another comment, and a new edit has been started since.
SavedUnderSearchThenEditing ==
    /\ Dashboard
    /\ SaveAccepted
    /\ ~lastSave.reloaded
    /\ searchTerm # <<>>
    /\ editingCell # NoCell
    /\ comments # serverComments
    /\ DOMAIN OverlayOf(localStorage) # {lastSave.id}

\* C12: in every settled state of the dashboard the current page is within
\* 1..max(1, totalPages), so a filtered set that is not empty has a page
\* slice that is not empty.
PageInRange ==
    (Dashboard /\ Settled) =>
        /\ 1 <= currentPage
        /\ currentPage <= Max(1, totalPages)
        /\ Len(filteredComments) > 0 => Len(paginatedComments) > 0

====
